---- MODULE Spec2Model ----
(***************************************************************************)
(* Model of the account attribute inference engine of info.py              *)
(* (class TelegramAccountAnalyzer): _estimate_registration_date,           *)
(* _estimate_country with _country_from_lang_code and _country_from_phone, *)
(* and _get_user_status.                                                   *)
(*                                                                         *)
(* Each estimator is a synchronous function of the fetched user object.    *)
(* Under SpecDate, SpecCountry, SpecStatus a behaviour is one call: Init   *)
(* draws the user object (and the clock), the call action applies the      *)
(* function and stores what it returned. SpecInfo is one handler from the  *)
(* fetched entity to its reply; SpecClient is the lazy initialisation of   *)
(* the client under concurrent get_user_info coroutines and /clear.        *)
(*                                                                         *)
(* Representation of Python values:                                        *)
(*  - an int n is [kind |-> "int", hi, lo] with n = hi * 10^6 + lo and     *)
(*    0 <= lo < 10^6 (identifiers reach 3 * 10^9, beyond the model         *)
(*    checker's 32-bit integers; the order on such pairs is that on n);    *)
(*  - a str is a TLA+ string; an attribute that may be None, or missing    *)
(*    from the object, is [kind |-> "str" | "none" | "missing", v];        *)
(*  - a call's outcome is [raised, value]: a returned value, or an         *)
(*    exception that left the function.                                    *)
(* Labels that hold non-ASCII characters in the source (two country names, *)
(* the coloured dots of the status labels) are written without them.       *)
(***************************************************************************)
EXTENDS Integers, Sequences, FiniteSets, TLC

VARIABLES
    pc,         \* "call": the function has been called; "done": it returned
    user,       \* the fetched account: [id, lang_code, phone, status]
    now,        \* the wall clock, in seconds (datetime.now())
    returned,   \* the call's outcome, [raised, value]
    clock_reads,    \* the readings datetime.now() gave during get_user_info
    reply,          \* what the handler did with the record, [raised, value]
    analyzer,       \* the analyzer object: [client, session_initialized]
    clients,        \* the TelegramClient objects constructed so far
    session_file,   \* whether the file bot_session.session exists
    clears,         \* how often the session has been cleared
    tasks           \* the running get_user_info coroutines

info_vars == <<clock_reads, reply>>

client_vars == <<analyzer, clients, session_file, clears, tasks>>

vars == <<pc, user, now, returned, clock_reads, reply,
          analyzer, clients, session_file, clears, tasks>>

\* no handler is running: a single estimator is called
NoHandler == clock_reads = <<>> /\ reply = [raised |-> FALSE, value |-> "not called"]

\* the analyzer as constructed (__init__), no client, no coroutine
NoClient ==
    /\ analyzer = [client |-> 0, session_initialized |-> FALSE]
    /\ clients = <<>>
    /\ session_file = FALSE
    /\ clears = 0
    /\ tasks = <<>>

(***************************************************************************)
(* Bounds of the model.                                                    *)
(***************************************************************************)
\* identifiers are drawn from threshold - IdSpread .. threshold + IdSpread
IdSpread == 1

(***************************************************************************)
(* Python values.                                                          *)
(***************************************************************************)
\* the int hi * 10^6 + lo, for any integers hi, lo
IntVal(hi, lo) ==
    [kind |-> "int", hi |-> hi + (lo \div 1000000), lo |-> lo % 1000000,
     v |-> ""]

StrVal(s) == [kind |-> "str", hi |-> 0, lo |-> 0, v |-> s]

NoneVal == [kind |-> "none", hi |-> 0, lo |-> 0, v |-> ""]

Return(v) == [raised |-> FALSE, value |-> v]

Raise(e) == [raised |-> TRUE, value |-> e]

NotCalled == [raised |-> FALSE, value |-> "not called"]

(***************************************************************************)
(* _estimate_registration_date                                             *)
(***************************************************************************)
DateInfo(y, m, d) == [year |-> y, month |-> m, day |-> d]

\* a mis-ordered table: the 2016 milestone entered with the year 2014
id_ranges_misordered ==
    << [threshold |-> IntVal(0, 1000),    date_info |-> DateInfo(2013, 8, 14)],
       [threshold |-> IntVal(0, 10000),   date_info |-> DateInfo(2013, 9, 15)],
       [threshold |-> IntVal(0, 100000),  date_info |-> DateInfo(2013, 11, 1)],
       [threshold |-> IntVal(1, 0),       date_info |-> DateInfo(2014, 3, 1)],
       [threshold |-> IntVal(10, 0),      date_info |-> DateInfo(2015, 6, 1)],
       [threshold |-> IntVal(50, 0),      date_info |-> DateInfo(2014, 6, 1)],
       [threshold |-> IntVal(100, 0),     date_info |-> DateInfo(2017, 1, 1)],
       [threshold |-> IntVal(200, 0),     date_info |-> DateInfo(2017, 8, 1)],
       [threshold |-> IntVal(400, 0),     date_info |-> DateInfo(2018, 6, 1)],
       [threshold |-> IntVal(600, 0),     date_info |-> DateInfo(2019, 3, 1)],
       [threshold |-> IntVal(800, 0),     date_info |-> DateInfo(2019, 9, 1)],
       [threshold |-> IntVal(1000, 0),    date_info |-> DateInfo(2020, 3, 1)],
       [threshold |-> IntVal(1200, 0),    date_info |-> DateInfo(2020, 8, 1)],
       [threshold |-> IntVal(1400, 0),    date_info |-> DateInfo(2021, 1, 1)],
       [threshold |-> IntVal(1600, 0),    date_info |-> DateInfo(2021, 6, 1)],
       [threshold |-> IntVal(1800, 0),    date_info |-> DateInfo(2022, 1, 1)],
       [threshold |-> IntVal(2000, 0),    date_info |-> DateInfo(2022, 6, 1)],
       [threshold |-> IntVal(2200, 0),    date_info |-> DateInfo(2023, 1, 1)],
       [threshold |-> IntVal(2400, 0),    date_info |-> DateInfo(2023, 6, 1)],
       [threshold |-> IntVal(2600, 0),    date_info |-> DateInfo(2024, 1, 1)] >>

\* the calibration table: (exclusive upper bound of the identifier, date)
id_ranges ==
    << [threshold |-> IntVal(0, 1000),    date_info |-> DateInfo(2013, 8, 14)],
       [threshold |-> IntVal(0, 10000),   date_info |-> DateInfo(2013, 9, 15)],
       [threshold |-> IntVal(0, 100000),  date_info |-> DateInfo(2013, 11, 1)],
       [threshold |-> IntVal(1, 0),       date_info |-> DateInfo(2014, 3, 1)],
       [threshold |-> IntVal(10, 0),      date_info |-> DateInfo(2015, 6, 1)],
       [threshold |-> IntVal(50, 0),      date_info |-> DateInfo(2016, 6, 1)],
       [threshold |-> IntVal(100, 0),     date_info |-> DateInfo(2017, 1, 1)],
       [threshold |-> IntVal(200, 0),     date_info |-> DateInfo(2017, 8, 1)],
       [threshold |-> IntVal(400, 0),     date_info |-> DateInfo(2018, 6, 1)],
       [threshold |-> IntVal(600, 0),     date_info |-> DateInfo(2019, 3, 1)],
       [threshold |-> IntVal(800, 0),     date_info |-> DateInfo(2019, 9, 1)],
       [threshold |-> IntVal(1000, 0),    date_info |-> DateInfo(2020, 3, 1)],
       [threshold |-> IntVal(1200, 0),    date_info |-> DateInfo(2020, 8, 1)],
       [threshold |-> IntVal(1400, 0),    date_info |-> DateInfo(2021, 1, 1)],
       [threshold |-> IntVal(1600, 0),    date_info |-> DateInfo(2021, 6, 1)],
       [threshold |-> IntVal(1800, 0),    date_info |-> DateInfo(2022, 1, 1)],
       [threshold |-> IntVal(2000, 0),    date_info |-> DateInfo(2022, 6, 1)],
       [threshold |-> IntVal(2200, 0),    date_info |-> DateInfo(2023, 1, 1)],
       [threshold |-> IntVal(2400, 0),    date_info |-> DateInfo(2023, 6, 1)],
       [threshold |-> IntVal(2600, 0),    date_info |-> DateInfo(2024, 1, 1)] >>

\* whether Python can evaluate user_id < threshold (threshold is an int):
\* for a str or None the comparison raises TypeError
comparable(user_id) == user_id.kind = "int"

\* the comparison written <= instead of <
less_than_or_equal(user_id, threshold) ==
    \/ user_id.hi < threshold.hi
    \/ user_id.hi = threshold.hi /\ user_id.lo <= threshold.lo

\* user_id < threshold, both ints
less_than(user_id, threshold) ==
    \/ user_id.hi < threshold.hi
    \/ user_id.hi = threshold.hi /\ user_id.lo < threshold.lo

\* the date returned when no threshold exceeds the identifier, here the
\* date of the last calibration point again
very_new_users_stale ==
    [year |-> 2024, month |-> 1, day |-> 1,
     estimated |-> TRUE, accuracy |-> "approximate"]

\* "For very new users"
very_new_users ==
    [year |-> 2024, month |-> 6, day |-> 1,
     estimated |-> TRUE, accuracy |-> "approximate"]

\* {**date_info, 'estimated': True, 'accuracy': 'approximate'}
approximate(date_info) ==
    [year |-> date_info.year, month |-> date_info.month, day |-> date_info.day,
     estimated |-> TRUE, accuracy |-> "approximate"]

\* the record of the except branch
failed ==
    [year |-> "Unknown", month |-> "Unknown", day |-> "Unknown",
     estimated |-> TRUE, accuracy |-> "failed"]

\* the body of the try block: the loop over id_ranges from entry i on, then
\* the catch-all; the outcome is a return or the comparison's TypeError
RECURSIVE scan_id_ranges(_, _)
scan_id_ranges(user_id, i) ==
    IF i > Len(id_ranges) THEN Return(very_new_users)
    ELSE IF ~comparable(user_id) THEN Raise("TypeError")
    ELSE IF less_than(user_id, id_ranges[i].threshold)
         THEN Return(approximate(id_ranges[i].date_info))
         ELSE scan_id_ranges(user_id, i + 1)

\* the function without its except clause: the exception leaves it
_estimate_registration_date_unguarded(user_id) == scan_id_ranges(user_id, 1)

\* try: <scan> except Exception: return <failed>
_estimate_registration_date(user_id) ==
    LET body == scan_id_ranges(user_id, 1)
    IN  IF body.raised THEN Return(failed) ELSE body

(***************************************************************************)
(* The user objects a call is made with.                                   *)
(***************************************************************************)
Thresholds == {id_ranges[i].threshold : i \in 1..Len(id_ranges)}

\* identifiers around every threshold, the scenarios of the specification
\* (500 and 3,000,000,000), zero and negative ones
IntUserIds ==
    {IntVal(t.hi, t.lo + d) : t \in Thresholds, d \in (0 - IdSpread)..IdSpread}
    \cup {IntVal(0, 0), IntVal(0, 500), IntVal(3000, 0), IntVal(0, -1),
          IntVal(-5, 0), IntVal(2147, 483647), IntVal(2147, 483648)}

\* values that are no int: a str (numeric or not) and None
OtherUserIds == {StrVal("abc"), StrVal("12345"), NoneVal}

UserIds == IntUserIds \cup OtherUserIds

NoUser == [id |-> NoneVal, lang_code |-> NoneVal, phone |-> NoneVal,
           status |-> NoneVal]

(***************************************************************************)
(* Specification of one call of _estimate_registration_date.               *)
(***************************************************************************)
InitDate ==
    /\ pc = "call"
    /\ NoHandler /\ NoClient
    /\ \E i \in UserIds : user = [NoUser EXCEPT !.id = i]
    /\ now = 0
    /\ returned = NotCalled

CallEstimateRegistrationDate ==
    /\ pc = "call"
    /\ returned' = _estimate_registration_date(user.id)
    /\ pc' = "done"
    /\ UNCHANGED <<user, now, info_vars, client_vars>>

NextDate == CallEstimateRegistrationDate

SpecDate == InitDate /\ [][NextDate]_vars

(***************************************************************************)
(* Properties of _estimate_registration_date, checked under SpecDate.      *)
(***************************************************************************)
\* the order of the integers on their encodings
IdLess(a, b) == a.hi < b.hi \/ (a.hi = b.hi /\ a.lo < b.lo)

\* the order of the calendar on (year, month, day)
DateLE(d, e) ==
    \/ d.year < e.year
    \/ d.year = e.year /\ d.month < e.month
    \/ d.year = e.year /\ d.month = e.month /\ d.day <= e.day

DateReturned == pc = "done" /\ ~returned.raised

\* C1: monotonicity. For integer identifiers a < b the date estimated for a
\* is on or before the date estimated for b, and its year is no later; b is
\* the identifier of the call, a ranges over all the identifiers.
C1_Monotone ==
    (pc = "done" /\ user.id.kind = "int") =>
        /\ ~returned.raised
        /\ \A a \in IntUserIds :
              LET other == _estimate_registration_date(a).value
              IN  /\ IdLess(a, user.id) =>
                        /\ DateLE(other, returned.value)
                        /\ other.year <= returned.value.year
                  /\ IdLess(user.id, a) =>
                        /\ DateLE(returned.value, other)
                        /\ returned.value.year <= other.year

\* the step from the last calibration bucket to the catch-all date
C1_Witness ==
    /\ DateReturned
    /\ user.id = IntVal(2600, 0)
    /\ returned.value.year = 2024 /\ returned.value.month = 6
    /\ _estimate_registration_date(IntVal(2599, 999999)).value.month = 1

\* C2: an integer identifier smaller than some threshold gets the date of the
\* first calibration point whose threshold is strictly greater, tagged
\* estimated and approximate; an identifier equal to a threshold gets the
\* next point's date; an identifier below 1000 gets 2013-08-14.
C2_FirstExceedingThreshold ==
    (pc = "done" /\ user.id.kind = "int") =>
        LET n == Len(id_ranges)
            above == {i \in 1..n : IdLess(user.id, id_ranges[i].threshold)}
        IN  /\ above # {} =>
                LET j == CHOOSE j \in above : \A k \in above : j <= k
                    d == id_ranges[j].date_info
                IN  /\ ~returned.raised
                    /\ returned.value =
                         [year |-> d.year, month |-> d.month, day |-> d.day,
                          estimated |-> TRUE, accuracy |-> "approximate"]
            /\ \A i \in 1..(n - 1) :
                 user.id = id_ranges[i].threshold =>
                    /\ returned.value.year = id_ranges[i + 1].date_info.year
                    /\ returned.value.month = id_ranges[i + 1].date_info.month
                    /\ returned.value.day = id_ranges[i + 1].date_info.day
            /\ IdLess(user.id, IntVal(0, 1000)) =>
                 returned.value =
                     [year |-> 2013, month |-> 8, day |-> 14,
                      estimated |-> TRUE, accuracy |-> "approximate"]

\* an identifier equal to the threshold 1000 has the date of the next bucket
C2_Witness ==
    /\ DateReturned
    /\ user.id = IntVal(0, 1000)
    /\ returned.value.year = 2013 /\ returned.value.month = 9
    /\ returned.value.day = 15

\* C3: an integer identifier gets the catch-all date 2024-06-01 (estimated,
\* approximate) exactly when it is at or above the largest threshold,
\* 2600000000.
C3_CatchAll ==
    (pc = "done" /\ user.id.kind = "int") =>
        /\ ~returned.raised
        /\ (returned.value =
              [year |-> 2024, month |-> 6, day |-> 1,
               estimated |-> TRUE, accuracy |-> "approximate"])
           <=> ~IdLess(user.id, IntVal(2600, 0))

\* the identifier 3,000,000,000 has the catch-all date
C3_Witness ==
    /\ DateReturned
    /\ user.id = IntVal(3000, 0)
    /\ returned.value.year = 2024 /\ returned.value.month = 6
    /\ returned.value.day = 1

\* C4: the call never raises; for a value that cannot be compared with a
\* number it returns accuracy failed with the sentinel date fields, and it
\* returns accuracy failed for no integer identifier.
C4_FailedOnlyForNonNumbers ==
    pc = "done" =>
        /\ ~returned.raised
        /\ returned.value.accuracy = "failed" <=> user.id.kind # "int"
        /\ returned.value.accuracy = "failed" =>
              /\ returned.value.year = "Unknown"
              /\ returned.value.month = "Unknown"
              /\ returned.value.day = "Unknown"

\* a non-numeric string reached the function and the failed record came back
C4_Witness ==
    /\ DateReturned
    /\ user.id = StrVal("abc")
    /\ returned.value.accuracy = "failed"

(***************************************************************************)
(* Python strings.                                                         *)
(***************************************************************************)
\* longest phone string drawn from PhoneChars
MaxPhoneLen == 3

Missing == [kind |-> "missing", hi |-> 0, lo |-> 0, v |-> ""]

\* hasattr(obj, name) and obj.name, for an attribute that is a str or None
truthy(attr) == attr.kind = "str" /\ attr.v # ""

ascii_lowercase ==
       "A" :> "a" @@ "B" :> "b" @@ "C" :> "c" @@ "D" :> "d" @@ "E" :> "e"
    @@ "F" :> "f" @@ "G" :> "g" @@ "H" :> "h" @@ "I" :> "i" @@ "J" :> "j"
    @@ "K" :> "k" @@ "L" :> "l" @@ "M" :> "m" @@ "N" :> "n" @@ "O" :> "o"
    @@ "P" :> "p" @@ "Q" :> "q" @@ "R" :> "r" @@ "S" :> "s" @@ "T" :> "t"
    @@ "U" :> "u" @@ "V" :> "v" @@ "W" :> "w" @@ "X" :> "x" @@ "Y" :> "y"
    @@ "Z" :> "z"

\* str.lower()
RECURSIVE lower(_)
lower(s) ==
    IF s = "" THEN ""
    ELSE LET c == SubSeq(s, 1, 1)
         IN  (IF c \in DOMAIN ascii_lowercase THEN ascii_lowercase[c] ELSE c)
             \o lower(SubSeq(s, 2, Len(s)))

\* str.isdigit of one character
isdigit(c) == c \in {"0", "1", "2", "3", "4", "5", "6", "7", "8", "9"}

\* ''.join(filter(str.isdigit, phone))
RECURSIVE filter_digits(_)
filter_digits(phone) ==
    IF phone = "" THEN ""
    ELSE LET c == SubSeq(phone, 1, 1)
         IN  (IF isdigit(c) THEN c ELSE "") \o filter_digits(SubSeq(phone, 2, Len(phone)))

(***************************************************************************)
(* _country_from_lang_code                                                 *)
(***************************************************************************)
lang_country_map ==
       "en" :> "English Speaking Region"
    @@ "ru" :> "Russia/CIS Countries"
    @@ "es" :> "Spain/Latin America"
    @@ "pt" :> "Portugal/Brazil"
    @@ "fr" :> "France/Francophone Countries"
    @@ "de" :> "Germany/DACH Region"
    @@ "it" :> "Italy"
    @@ "tr" :> "Turkey"
    @@ "ar" :> "Arabic Speaking Countries"
    @@ "fa" :> "Iran/Persian Speaking"
    @@ "hi" :> "India/Hindi Speaking"
    @@ "zh" :> "China/Chinese Speaking"
    @@ "ja" :> "Japan"
    @@ "ko" :> "South Korea"
    @@ "uk" :> "Ukraine"
    @@ "pl" :> "Poland"
    @@ "nl" :> "Netherlands"
    @@ "sv" :> "Sweden"
    @@ "da" :> "Denmark"
    @@ "no" :> "Norway"
    @@ "fi" :> "Finland"
    @@ "cs" :> "Czech Republic"
    @@ "hu" :> "Hungary"
    @@ "ro" :> "Romania"
    @@ "bg" :> "Bulgaria"
    @@ "hr" :> "Croatia"
    @@ "sk" :> "Slovakia"
    @@ "sl" :> "Slovenia"
    @@ "et" :> "Estonia"
    @@ "lv" :> "Latvia"
    @@ "lt" :> "Lithuania"
    @@ "el" :> "Greece"
    @@ "he" :> "Israel"
    @@ "th" :> "Thailand"
    @@ "vi" :> "Vietnam"
    @@ "id" :> "Indonesia"
    @@ "ms" :> "Malaysia"
    @@ "tl" :> "Philippines"
    @@ "bn" :> "Bangladesh/Bengal"
    @@ "ur" :> "Pakistan/Urdu Speaking"
    @@ "ta" :> "Tamil Speaking Regions"
    @@ "te" :> "Telugu Speaking Regions"
    @@ "ml" :> "Malayalam Speaking Regions"
    @@ "kn" :> "Kannada Speaking Regions"
    @@ "gu" :> "Gujarati Speaking Regions"
    @@ "pa" :> "Punjabi Speaking Regions"
    @@ "ne" :> "Nepal"
    @@ "si" :> "Sri Lanka"
    @@ "my" :> "Myanmar"
    @@ "km" :> "Cambodia"
    @@ "lo" :> "Laos"
    @@ "ka" :> "Georgia"
    @@ "hy" :> "Armenia"
    @@ "az" :> "Azerbaijan"
    @@ "kk" :> "Kazakhstan"
    @@ "ky" :> "Kyrgyzstan"
    @@ "uz" :> "Uzbekistan"
    @@ "tg" :> "Tajikistan"
    @@ "tk" :> "Turkmenistan"
    @@ "mn" :> "Mongolia"
    @@ "be" :> "Belarus"
    @@ "mk" :> "North Macedonia"
    @@ "sq" :> "Albania"
    @@ "sr" :> "Serbia"
    @@ "bs" :> "Bosnia and Herzegovina"
    @@ "me" :> "Montenegro"
    @@ "is" :> "Iceland"
    @@ "mt" :> "Malta"
    @@ "ga" :> "Ireland"
    @@ "cy" :> "Wales"
    @@ "gd" :> "Scotland"
    @@ "eu" :> "Basque Region"
    @@ "ca" :> "Catalonia"
    @@ "gl" :> "Galicia"
    @@ "af" :> "South Africa/Afrikaans"
    @@ "sw" :> "East Africa/Swahili"
    @@ "am" :> "Ethiopia"
    @@ "zu" :> "South Africa/Zulu"
    @@ "xh" :> "South Africa/Xhosa"
    @@ "yo" :> "Nigeria/Yoruba"
    @@ "ig" :> "Nigeria/Igbo"
    @@ "ha" :> "West Africa/Hausa"

\* lang_country_map.get(lang_code.lower(), 'Unknown')
_country_from_lang_code(lang_code) ==
    LET key == lower(lang_code)
    IN  IF key \in DOMAIN lang_country_map THEN lang_country_map[key]
        ELSE "Unknown"

(***************************************************************************)
(* _country_from_phone                                                     *)
(***************************************************************************)
\* the table with a two-digit key added under the one-digit key 7
country_codes_overlapping ==
       "1" :> "USA/Canada"
    @@ "7" :> "Russia/Kazakhstan"
    @@ "77" :> "Kazakhstan"
    @@ "20" :> "Egypt"
    @@ "27" :> "South Africa"
    @@ "30" :> "Greece"
    @@ "31" :> "Netherlands"
    @@ "32" :> "Belgium"
    @@ "33" :> "France"
    @@ "34" :> "Spain"
    @@ "36" :> "Hungary"
    @@ "39" :> "Italy"
    @@ "40" :> "Romania"
    @@ "41" :> "Switzerland"
    @@ "43" :> "Austria"
    @@ "44" :> "United Kingdom"
    @@ "45" :> "Denmark"
    @@ "46" :> "Sweden"
    @@ "47" :> "Norway"
    @@ "48" :> "Poland"
    @@ "49" :> "Germany"
    @@ "51" :> "Peru"
    @@ "52" :> "Mexico"
    @@ "53" :> "Cuba"
    @@ "54" :> "Argentina"
    @@ "55" :> "Brazil"
    @@ "56" :> "Chile"
    @@ "57" :> "Colombia"
    @@ "58" :> "Venezuela"
    @@ "60" :> "Malaysia"
    @@ "61" :> "Australia"
    @@ "62" :> "Indonesia"
    @@ "63" :> "Philippines"
    @@ "64" :> "New Zealand"
    @@ "65" :> "Singapore"
    @@ "66" :> "Thailand"
    @@ "81" :> "Japan"
    @@ "82" :> "South Korea"
    @@ "84" :> "Vietnam"
    @@ "86" :> "China"
    @@ "90" :> "Turkey"
    @@ "91" :> "India"
    @@ "92" :> "Pakistan"
    @@ "93" :> "Afghanistan"
    @@ "94" :> "Sri Lanka"
    @@ "95" :> "Myanmar"
    @@ "98" :> "Iran"
    @@ "212" :> "Morocco"
    @@ "213" :> "Algeria"
    @@ "216" :> "Tunisia"
    @@ "218" :> "Libya"
    @@ "220" :> "Gambia"
    @@ "221" :> "Senegal"
    @@ "222" :> "Mauritania"
    @@ "223" :> "Mali"
    @@ "224" :> "Guinea"
    @@ "225" :> "Ivory Coast"
    @@ "226" :> "Burkina Faso"
    @@ "227" :> "Niger"
    @@ "228" :> "Togo"
    @@ "229" :> "Benin"
    @@ "230" :> "Mauritius"
    @@ "231" :> "Liberia"
    @@ "232" :> "Sierra Leone"
    @@ "233" :> "Ghana"
    @@ "234" :> "Nigeria"
    @@ "235" :> "Chad"
    @@ "236" :> "Central African Republic"
    @@ "237" :> "Cameroon"
    @@ "238" :> "Cape Verde"
    @@ "239" :> "Sao Tome and Principe"
    @@ "240" :> "Equatorial Guinea"
    @@ "241" :> "Gabon"
    @@ "242" :> "Republic of the Congo"
    @@ "243" :> "Democratic Republic of the Congo"
    @@ "244" :> "Angola"
    @@ "245" :> "Guinea-Bissau"
    @@ "246" :> "British Indian Ocean Territory"
    @@ "248" :> "Seychelles"
    @@ "249" :> "Sudan"
    @@ "250" :> "Rwanda"
    @@ "251" :> "Ethiopia"
    @@ "252" :> "Somalia"
    @@ "253" :> "Djibouti"
    @@ "254" :> "Kenya"
    @@ "255" :> "Tanzania"
    @@ "256" :> "Uganda"
    @@ "257" :> "Burundi"
    @@ "258" :> "Mozambique"
    @@ "260" :> "Zambia"
    @@ "261" :> "Madagascar"
    @@ "262" :> "Reunion"
    @@ "263" :> "Zimbabwe"
    @@ "264" :> "Namibia"
    @@ "265" :> "Malawi"
    @@ "266" :> "Lesotho"
    @@ "267" :> "Botswana"
    @@ "268" :> "Eswatini"
    @@ "269" :> "Comoros"
    @@ "290" :> "Saint Helena"
    @@ "291" :> "Eritrea"
    @@ "297" :> "Aruba"
    @@ "298" :> "Faroe Islands"
    @@ "299" :> "Greenland"
    @@ "350" :> "Gibraltar"
    @@ "351" :> "Portugal"
    @@ "352" :> "Luxembourg"
    @@ "353" :> "Ireland"
    @@ "354" :> "Iceland"
    @@ "355" :> "Albania"
    @@ "356" :> "Malta"
    @@ "357" :> "Cyprus"
    @@ "358" :> "Finland"
    @@ "359" :> "Bulgaria"
    @@ "370" :> "Lithuania"
    @@ "371" :> "Latvia"
    @@ "372" :> "Estonia"
    @@ "373" :> "Moldova"
    @@ "374" :> "Armenia"
    @@ "375" :> "Belarus"
    @@ "376" :> "Andorra"
    @@ "377" :> "Monaco"
    @@ "378" :> "San Marino"
    @@ "380" :> "Ukraine"
    @@ "381" :> "Serbia"
    @@ "382" :> "Montenegro"
    @@ "383" :> "Kosovo"
    @@ "385" :> "Croatia"
    @@ "386" :> "Slovenia"
    @@ "387" :> "Bosnia and Herzegovina"
    @@ "389" :> "North Macedonia"
    @@ "420" :> "Czech Republic"
    @@ "421" :> "Slovakia"
    @@ "423" :> "Liechtenstein"
    @@ "500" :> "Falkland Islands"
    @@ "501" :> "Belize"
    @@ "502" :> "Guatemala"
    @@ "503" :> "El Salvador"
    @@ "504" :> "Honduras"
    @@ "505" :> "Nicaragua"
    @@ "506" :> "Costa Rica"
    @@ "507" :> "Panama"
    @@ "508" :> "Saint Pierre and Miquelon"
    @@ "509" :> "Haiti"
    @@ "590" :> "Guadeloupe"
    @@ "591" :> "Bolivia"
    @@ "592" :> "Guyana"
    @@ "593" :> "Ecuador"
    @@ "594" :> "French Guiana"
    @@ "595" :> "Paraguay"
    @@ "596" :> "Martinique"
    @@ "597" :> "Suriname"
    @@ "598" :> "Uruguay"
    @@ "599" :> "Netherlands Antilles"
    @@ "670" :> "East Timor"
    @@ "672" :> "Australian External Territories"
    @@ "673" :> "Brunei"
    @@ "674" :> "Nauru"
    @@ "675" :> "Papua New Guinea"
    @@ "676" :> "Tonga"
    @@ "677" :> "Solomon Islands"
    @@ "678" :> "Vanuatu"
    @@ "679" :> "Fiji"
    @@ "680" :> "Palau"
    @@ "681" :> "Wallis and Futuna"
    @@ "682" :> "Cook Islands"
    @@ "683" :> "Niue"
    @@ "684" :> "American Samoa"
    @@ "685" :> "Samoa"
    @@ "686" :> "Kiribati"
    @@ "687" :> "New Caledonia"
    @@ "688" :> "Tuvalu"
    @@ "689" :> "French Polynesia"
    @@ "690" :> "Tokelau"
    @@ "691" :> "Federated States of Micronesia"
    @@ "692" :> "Marshall Islands"
    @@ "850" :> "North Korea"
    @@ "852" :> "Hong Kong"
    @@ "853" :> "Macau"
    @@ "855" :> "Cambodia"
    @@ "856" :> "Laos"
    @@ "880" :> "Bangladesh"
    @@ "886" :> "Taiwan"
    @@ "960" :> "Maldives"
    @@ "961" :> "Lebanon"
    @@ "962" :> "Jordan"
    @@ "963" :> "Syria"
    @@ "964" :> "Iraq"
    @@ "965" :> "Kuwait"
    @@ "966" :> "Saudi Arabia"
    @@ "967" :> "Yemen"
    @@ "968" :> "Oman"
    @@ "970" :> "Palestine"
    @@ "971" :> "United Arab Emirates"
    @@ "972" :> "Israel"
    @@ "973" :> "Bahrain"
    @@ "974" :> "Qatar"
    @@ "975" :> "Bhutan"
    @@ "976" :> "Mongolia"
    @@ "977" :> "Nepal"
    @@ "992" :> "Tajikistan"
    @@ "993" :> "Turkmenistan"
    @@ "994" :> "Azerbaijan"
    @@ "995" :> "Georgia"
    @@ "996" :> "Kyrgyzstan"
    @@ "998" :> "Uzbekistan"

\* the calling codes
country_codes ==
       "1" :> "USA/Canada"
    @@ "7" :> "Russia/Kazakhstan"
    @@ "20" :> "Egypt"
    @@ "27" :> "South Africa"
    @@ "30" :> "Greece"
    @@ "31" :> "Netherlands"
    @@ "32" :> "Belgium"
    @@ "33" :> "France"
    @@ "34" :> "Spain"
    @@ "36" :> "Hungary"
    @@ "39" :> "Italy"
    @@ "40" :> "Romania"
    @@ "41" :> "Switzerland"
    @@ "43" :> "Austria"
    @@ "44" :> "United Kingdom"
    @@ "45" :> "Denmark"
    @@ "46" :> "Sweden"
    @@ "47" :> "Norway"
    @@ "48" :> "Poland"
    @@ "49" :> "Germany"
    @@ "51" :> "Peru"
    @@ "52" :> "Mexico"
    @@ "53" :> "Cuba"
    @@ "54" :> "Argentina"
    @@ "55" :> "Brazil"
    @@ "56" :> "Chile"
    @@ "57" :> "Colombia"
    @@ "58" :> "Venezuela"
    @@ "60" :> "Malaysia"
    @@ "61" :> "Australia"
    @@ "62" :> "Indonesia"
    @@ "63" :> "Philippines"
    @@ "64" :> "New Zealand"
    @@ "65" :> "Singapore"
    @@ "66" :> "Thailand"
    @@ "81" :> "Japan"
    @@ "82" :> "South Korea"
    @@ "84" :> "Vietnam"
    @@ "86" :> "China"
    @@ "90" :> "Turkey"
    @@ "91" :> "India"
    @@ "92" :> "Pakistan"
    @@ "93" :> "Afghanistan"
    @@ "94" :> "Sri Lanka"
    @@ "95" :> "Myanmar"
    @@ "98" :> "Iran"
    @@ "212" :> "Morocco"
    @@ "213" :> "Algeria"
    @@ "216" :> "Tunisia"
    @@ "218" :> "Libya"
    @@ "220" :> "Gambia"
    @@ "221" :> "Senegal"
    @@ "222" :> "Mauritania"
    @@ "223" :> "Mali"
    @@ "224" :> "Guinea"
    @@ "225" :> "Ivory Coast"
    @@ "226" :> "Burkina Faso"
    @@ "227" :> "Niger"
    @@ "228" :> "Togo"
    @@ "229" :> "Benin"
    @@ "230" :> "Mauritius"
    @@ "231" :> "Liberia"
    @@ "232" :> "Sierra Leone"
    @@ "233" :> "Ghana"
    @@ "234" :> "Nigeria"
    @@ "235" :> "Chad"
    @@ "236" :> "Central African Republic"
    @@ "237" :> "Cameroon"
    @@ "238" :> "Cape Verde"
    @@ "239" :> "Sao Tome and Principe"
    @@ "240" :> "Equatorial Guinea"
    @@ "241" :> "Gabon"
    @@ "242" :> "Republic of the Congo"
    @@ "243" :> "Democratic Republic of the Congo"
    @@ "244" :> "Angola"
    @@ "245" :> "Guinea-Bissau"
    @@ "246" :> "British Indian Ocean Territory"
    @@ "248" :> "Seychelles"
    @@ "249" :> "Sudan"
    @@ "250" :> "Rwanda"
    @@ "251" :> "Ethiopia"
    @@ "252" :> "Somalia"
    @@ "253" :> "Djibouti"
    @@ "254" :> "Kenya"
    @@ "255" :> "Tanzania"
    @@ "256" :> "Uganda"
    @@ "257" :> "Burundi"
    @@ "258" :> "Mozambique"
    @@ "260" :> "Zambia"
    @@ "261" :> "Madagascar"
    @@ "262" :> "Reunion"
    @@ "263" :> "Zimbabwe"
    @@ "264" :> "Namibia"
    @@ "265" :> "Malawi"
    @@ "266" :> "Lesotho"
    @@ "267" :> "Botswana"
    @@ "268" :> "Eswatini"
    @@ "269" :> "Comoros"
    @@ "290" :> "Saint Helena"
    @@ "291" :> "Eritrea"
    @@ "297" :> "Aruba"
    @@ "298" :> "Faroe Islands"
    @@ "299" :> "Greenland"
    @@ "350" :> "Gibraltar"
    @@ "351" :> "Portugal"
    @@ "352" :> "Luxembourg"
    @@ "353" :> "Ireland"
    @@ "354" :> "Iceland"
    @@ "355" :> "Albania"
    @@ "356" :> "Malta"
    @@ "357" :> "Cyprus"
    @@ "358" :> "Finland"
    @@ "359" :> "Bulgaria"
    @@ "370" :> "Lithuania"
    @@ "371" :> "Latvia"
    @@ "372" :> "Estonia"
    @@ "373" :> "Moldova"
    @@ "374" :> "Armenia"
    @@ "375" :> "Belarus"
    @@ "376" :> "Andorra"
    @@ "377" :> "Monaco"
    @@ "378" :> "San Marino"
    @@ "380" :> "Ukraine"
    @@ "381" :> "Serbia"
    @@ "382" :> "Montenegro"
    @@ "383" :> "Kosovo"
    @@ "385" :> "Croatia"
    @@ "386" :> "Slovenia"
    @@ "387" :> "Bosnia and Herzegovina"
    @@ "389" :> "North Macedonia"
    @@ "420" :> "Czech Republic"
    @@ "421" :> "Slovakia"
    @@ "423" :> "Liechtenstein"
    @@ "500" :> "Falkland Islands"
    @@ "501" :> "Belize"
    @@ "502" :> "Guatemala"
    @@ "503" :> "El Salvador"
    @@ "504" :> "Honduras"
    @@ "505" :> "Nicaragua"
    @@ "506" :> "Costa Rica"
    @@ "507" :> "Panama"
    @@ "508" :> "Saint Pierre and Miquelon"
    @@ "509" :> "Haiti"
    @@ "590" :> "Guadeloupe"
    @@ "591" :> "Bolivia"
    @@ "592" :> "Guyana"
    @@ "593" :> "Ecuador"
    @@ "594" :> "French Guiana"
    @@ "595" :> "Paraguay"
    @@ "596" :> "Martinique"
    @@ "597" :> "Suriname"
    @@ "598" :> "Uruguay"
    @@ "599" :> "Netherlands Antilles"
    @@ "670" :> "East Timor"
    @@ "672" :> "Australian External Territories"
    @@ "673" :> "Brunei"
    @@ "674" :> "Nauru"
    @@ "675" :> "Papua New Guinea"
    @@ "676" :> "Tonga"
    @@ "677" :> "Solomon Islands"
    @@ "678" :> "Vanuatu"
    @@ "679" :> "Fiji"
    @@ "680" :> "Palau"
    @@ "681" :> "Wallis and Futuna"
    @@ "682" :> "Cook Islands"
    @@ "683" :> "Niue"
    @@ "684" :> "American Samoa"
    @@ "685" :> "Samoa"
    @@ "686" :> "Kiribati"
    @@ "687" :> "New Caledonia"
    @@ "688" :> "Tuvalu"
    @@ "689" :> "French Polynesia"
    @@ "690" :> "Tokelau"
    @@ "691" :> "Federated States of Micronesia"
    @@ "692" :> "Marshall Islands"
    @@ "850" :> "North Korea"
    @@ "852" :> "Hong Kong"
    @@ "853" :> "Macau"
    @@ "855" :> "Cambodia"
    @@ "856" :> "Laos"
    @@ "880" :> "Bangladesh"
    @@ "886" :> "Taiwan"
    @@ "960" :> "Maldives"
    @@ "961" :> "Lebanon"
    @@ "962" :> "Jordan"
    @@ "963" :> "Syria"
    @@ "964" :> "Iraq"
    @@ "965" :> "Kuwait"
    @@ "966" :> "Saudi Arabia"
    @@ "967" :> "Yemen"
    @@ "968" :> "Oman"
    @@ "970" :> "Palestine"
    @@ "971" :> "United Arab Emirates"
    @@ "972" :> "Israel"
    @@ "973" :> "Bahrain"
    @@ "974" :> "Qatar"
    @@ "975" :> "Bhutan"
    @@ "976" :> "Mongolia"
    @@ "977" :> "Nepal"
    @@ "992" :> "Tajikistan"
    @@ "993" :> "Turkmenistan"
    @@ "994" :> "Azerbaijan"
    @@ "995" :> "Georgia"
    @@ "996" :> "Kyrgyzstan"
    @@ "998" :> "Uzbekistan"

\* for length in [3, 2, 1]
prefix_lengths == <<3, 2, 1>>

\* the loop over the prefix lengths, from the i-th length on
RECURSIVE probe_country_codes(_, _)
probe_country_codes(phone_digits, i) ==
    IF i > Len(prefix_lengths) THEN "Unknown"
    ELSE LET length == prefix_lengths[i]
             code == SubSeq(phone_digits, 1, length)
         IN  IF Len(phone_digits) >= length /\ code \in DOMAIN country_codes
             THEN country_codes[code]
             ELSE probe_country_codes(phone_digits, i + 1)

\* phone is a str
_country_from_phone(phone) ==
    IF phone = "" \/ Len(phone) < 2 THEN "Unknown"
    ELSE probe_country_codes(filter_digits(phone), 1)

(***************************************************************************)
(* _estimate_country                                                       *)
(***************************************************************************)
\* the phone number consulted before the language code
_estimate_country_phone_first(u) ==
    LET by_phone == IF truthy(u.phone) THEN _country_from_phone(u.phone.v)
                    ELSE "Unknown"
        by_lang == IF truthy(u.lang_code)
                   THEN _country_from_lang_code(u.lang_code.v)
                   ELSE "Unknown"
    IN  IF by_phone # "Unknown" THEN Return(by_phone \o " (from phone)")
        ELSE IF by_lang # "Unknown" THEN Return(by_lang \o " (from language)")
        ELSE Return("Unknown (Privacy Protected)")

\* the language code first, then the phone number, then the unknown region;
\* nothing in the try block raises for attributes that are a str, None or
\* missing, so the except branch (return 'Unknown') is not taken
_estimate_country(u) ==
    LET by_lang == IF truthy(u.lang_code)
                   THEN _country_from_lang_code(u.lang_code.v)
                   ELSE "Unknown"
        by_phone == IF truthy(u.phone) THEN _country_from_phone(u.phone.v)
                    ELSE "Unknown"
    IN  IF by_lang # "Unknown" THEN Return(by_lang \o " (from language)")
        ELSE IF by_phone # "Unknown" THEN Return(by_phone \o " (from phone)")
        ELSE Return("Unknown (Privacy Protected)")

(***************************************************************************)
(* Specification of one call of _estimate_country.                         *)
(***************************************************************************)
\* language tags: recognised ones in every letter case, unrecognised ones,
\* the empty string, None, and an object without the attribute
LangCodes ==
    {Missing, NoneVal}
    \cup {StrVal(s) : s \in {"", "en", "EN", "En", "eN", "ru", "RU", "uk",
                             "xx", "XX", "e", "eng"}}

PhoneChars == {"0", "1", "2", "7", "+", " "}

RECURSIVE StringsUpTo(_)
StringsUpTo(n) ==
    IF n = 0 THEN {""}
    ELSE LET shorter == StringsUpTo(n - 1)
         IN  shorter \cup {s \o c : s \in shorter, c \in PhoneChars}

\* phone strings: every string of PhoneChars up to MaxPhoneLen, formatted
\* numbers of several countries, None, and an object without the attribute
Phones ==
    {Missing, NoneVal}
    \cup {StrVal(s) : s \in StringsUpTo(MaxPhoneLen)}
    \cup {StrVal(s) : s \in {"+14155552671", "14155552671", "+1 (415) 555-2671",
                             "+7 912 345-67-89", "+44 20 7946 0958",
                             "(212) 661-234", "+20-100-200", "+998 71 123",
                             "+999 12", "8 800 555", "no phone", "7", "9"}}

InitCountry ==
    /\ pc = "call"
    /\ NoHandler /\ NoClient
    /\ \E l \in LangCodes, p \in Phones :
          user = [NoUser EXCEPT !.lang_code = l, !.phone = p]
    /\ now = 0
    /\ returned = NotCalled

CallEstimateCountry ==
    /\ pc = "call"
    /\ returned' = _estimate_country(user)
    /\ pc' = "done"
    /\ UNCHANGED <<user, now, info_vars, client_vars>>

NextCountry == CallEstimateCountry

SpecCountry == InitCountry /\ [][NextCountry]_vars

(***************************************************************************)
(* Properties of _estimate_country, checked under SpecCountry.             *)
(***************************************************************************)
\* the language tag is present and its lowercase form is a key of the table
TagRecognised(l) == truthy(l) /\ lower(l.v) \in DOMAIN lang_country_map

\* the phone string is present (a non-empty str)
PhonePresent(p) == p.kind = "str" /\ p.v # ""

\* the first n digits of the digit string d are a key of the calling codes
PrefixHit(d, n) == Len(d) >= n /\ SubSeq(d, 1, n) \in DOMAIN country_codes

\* the label of the longest of the 3-, 2- and 1-digit prefixes that hits
FirstHitLabel(d) ==
    IF PrefixHit(d, 3) THEN country_codes[SubSeq(d, 1, 3)]
    ELSE IF PrefixHit(d, 2) THEN country_codes[SubSeq(d, 1, 2)]
    ELSE IF PrefixHit(d, 1) THEN country_codes[SubSeq(d, 1, 1)]
    ELSE "Unknown"

\* the phone is present and a prefix of its digit string is a calling code
PhoneRecognised(p) ==
    PhonePresent(p) /\ \E n \in 1..3 : PrefixHit(filter_digits(p.v), n)

\* C5: language precedence. When the language tag is present and its
\* lowercase form is a key of the language table, the result is that key's
\* label marked "(from language)", whatever the phone is; "en" in any letter
\* case gives the English speaking region.
C5_LanguagePrecedence ==
    (pc = "done" /\ TagRecognised(user.lang_code)) =>
        /\ returned =
             Return(lang_country_map[lower(user.lang_code.v)] \o " (from language)")
        /\ user.lang_code.v \in {"en", "EN", "En", "eN"} =>
             returned.value = "English Speaking Region (from language)"

\* an upper-case tag together with a phone whose calling code is in the table
C5_Witness ==
    /\ pc = "done"
    /\ user.lang_code = StrVal("EN")
    /\ user.phone = StrVal("+14155552671")
    /\ _country_from_phone(user.phone.v) = "USA/Canada"
    /\ returned.value = "English Speaking Region (from language)"

\* C6: phone fallback. When the language tag is absent or unrecognised and a
\* phone string is present, the digit string left after stripping the
\* non-digits is probed with the prefix lengths 3, 2, 1, and if a prefix is
\* a key the result is the label of the first length that hits, marked
\* "(from phone)": for every present phone string, whatever its raw length.
C6_PhoneFallback ==
    (/\ pc = "done"
     /\ ~TagRecognised(user.lang_code)
     /\ PhoneRecognised(user.phone)) =>
        returned =
            Return(FirstHitLabel(filter_digits(user.phone.v)) \o " (from phone)")

\* C8: the unknown region is returned exactly when neither step matches:
\* the tag is absent or unrecognised and the phone is absent or none of its
\* digit prefixes is a calling code; and the call does not raise.
C8_UnknownExactlyWhenNoMatch ==
    pc = "done" =>
        /\ ~returned.raised
        /\ returned.value = "Unknown (Privacy Protected)"
           <=> (~TagRecognised(user.lang_code) /\ ~PhoneRecognised(user.phone))

(***************************************************************************)
(* _get_user_status                                                        *)
(*                                                                         *)
(* user.status is [kind, type_name, was_online]: kind "missing" when the   *)
(* user has no status attribute, "none" when it is None, "obj" for a       *)
(* status object of class type_name. was_online is [kind, t, tzinfo]:      *)
(* kind "missing" when the object has no such attribute, "datetime" for a  *)
(* datetime of wall-clock second t, "none" for None.                       *)
(***************************************************************************)
\* seconds drawn on either side of every boundary of the elapsed time
ElapsedSpread == 2

Days(n) == n * 86400

NoAttr == [kind |-> "missing", t |-> 0, tzinfo |-> "None"]

DateTime(t, tz) == [kind |-> "datetime", t |-> t, tzinfo |-> tz]

NoneAttr == [kind |-> "none", t |-> 0, tzinfo |-> "None"]

StatusObj(name, was_online) ==
    [kind |-> "obj", type_name |-> name, was_online |-> was_online]

NoStatusAttr == [kind |-> "missing", type_name |-> "", was_online |-> NoAttr]

NoneStatus == [kind |-> "none", type_name |-> "NoneType", was_online |-> NoAttr]

\* sub in s
contains(s, sub) ==
    \E i \in 1..(Len(s) - Len(sub) + 1) : SubSeq(s, i, i + Len(sub) - 1) = sub

\* s.replace(old, new), old not empty
RECURSIVE replace(_, _, _)
replace(s, old, new) ==
    IF Len(s) < Len(old) THEN s
    ELSE IF SubSeq(s, 1, Len(old)) = old
         THEN new \o replace(SubSeq(s, Len(old) + 1, Len(s)), old, new)
         ELSE SubSeq(s, 1, 1) \o replace(SubSeq(s, 2, Len(s)), old, new)

\* last_seen.replace(tzinfo=None): the same wall-clock fields, no zone
replace_tzinfo_none(last_seen) == [last_seen EXCEPT !.tzinfo = "None"]

\* now - last_seen for a naive now: a timedelta, normalised to days and
\* 0 <= seconds < 86400; TypeError when last_seen carries a zone
subtract(clock, last_seen) ==
    IF last_seen.tzinfo # "None" THEN Raise("TypeError")
    ELSE Return([days |-> (clock - last_seen.t) \div 86400,
                 seconds |-> (clock - last_seen.t) % 86400])

\* the day comparisons written >= instead of >
last_seen_label_inclusive(diff) ==
    IF diff.days >= 365
    THEN "Last seen: " \o ToString(diff.days \div 365) \o " year(s) ago"
    ELSE IF diff.days >= 30
    THEN "Last seen: " \o ToString(diff.days \div 30) \o " month(s) ago"
    ELSE IF diff.days > 0
    THEN "Last seen: " \o ToString(diff.days) \o " day(s) ago"
    ELSE IF diff.seconds > 3600
    THEN "Last seen: " \o ToString(diff.seconds \div 3600) \o " hour(s) ago"
    ELSE IF diff.seconds > 60
    THEN "Last seen: " \o ToString(diff.seconds \div 60) \o " minute(s) ago"
    ELSE "Last seen: Recently"

\* the if/elif chain over diff.days and diff.seconds
last_seen_label(diff) ==
    IF diff.days > 365
    THEN "Last seen: " \o ToString(diff.days \div 365) \o " year(s) ago"
    ELSE IF diff.days > 30
    THEN "Last seen: " \o ToString(diff.days \div 30) \o " month(s) ago"
    ELSE IF diff.days > 0
    THEN "Last seen: " \o ToString(diff.days) \o " day(s) ago"
    ELSE IF diff.seconds > 3600
    THEN "Last seen: " \o ToString(diff.seconds \div 3600) \o " hour(s) ago"
    ELSE IF diff.seconds > 60
    THEN "Last seen: " \o ToString(diff.seconds \div 60) \o " minute(s) ago"
    ELSE "Last seen: Recently"

\* the week check written 'Last' instead of 'LastWeek'
status_type_checks_loose ==
    << [needle |-> "Online",    label |-> "Online"],
       [needle |-> "Recently",  label |-> "Recently"],
       [needle |-> "Last",      label |-> "Within a week"],
       [needle |-> "LastMonth", label |-> "Within a month"],
       [needle |-> "Long",      label |-> "Long time ago"] >>

\* the elif chain over the name of the status type, in its order
status_type_checks ==
    << [needle |-> "Online",    label |-> "Online"],
       [needle |-> "Recently",  label |-> "Recently"],
       [needle |-> "LastWeek",  label |-> "Within a week"],
       [needle |-> "LastMonth", label |-> "Within a month"],
       [needle |-> "Long",      label |-> "Long time ago"] >>

\* the chain from its i-th check on, and its else branch
RECURSIVE status_type_label(_, _)
status_type_label(status_type, i) ==
    IF i > Len(status_type_checks)
    THEN "Status: " \o replace(status_type, "UserStatus", "")
    ELSE IF contains(status_type, status_type_checks[i].needle)
         THEN status_type_checks[i].label
         ELSE status_type_label(status_type, i + 1)

\* the body of the try block, with the clock reading of datetime.now()
get_user_status_body(u, clock) ==
    IF u.status.kind = "missing" THEN Return("Unknown")
    ELSE IF u.status.kind = "obj" /\ u.status.was_online.kind # "missing"
    THEN LET last_seen == u.status.was_online
         IN  IF last_seen.kind = "datetime"
             THEN LET diff == subtract(clock, replace_tzinfo_none(last_seen))
                  IN  IF diff.raised THEN diff
                      ELSE Return(last_seen_label(diff.value))
             ELSE Return("Last seen: None")
    ELSE Return(status_type_label(u.status.type_name, 1))

\* try: <body> except Exception: return "Unknown"
_get_user_status(u, clock) ==
    LET body == get_user_status_body(u, clock)
    IN  IF body.raised THEN Return("Unknown") ELSE body

(***************************************************************************)
(* Specification of one call of _get_user_status.                          *)
(***************************************************************************)
\* elapsed seconds around every boundary of the classification, the
\* scenarios of the specification (400 days, 40 minutes), values inside
\* each class, and last-seen times later than the clock
ElapsedBoundaries ==
    {0, 60, 3600, Days(1), Days(30), Days(31), Days(365), Days(366),
     Days(730), Days(731)}

ElapsedValues ==
    {b + d : b \in ElapsedBoundaries, d \in (0 - ElapsedSpread)..ElapsedSpread}
    \cup {2400, 7199, 7200, 7201, Days(1) + 3600, Days(2), Days(30) + 10800,
          Days(31) - 1, Days(60), Days(365) + 3600, Days(366) - 1, Days(400),
          Days(1100), 0 - 3600, 0 - Days(1), 0 - Days(2)}

\* wall-clock seconds of the last-seen timestamps
LastSeenTimes == {Days(800), Days(800) + 43200}

\* names of status classes without was_online: the four coarse classes of
\* the client library, a class for the 'Long' check, and the empty status
CoarseTypeNames ==
    {"UserStatusOnline", "UserStatusRecently", "UserStatusLastWeek",
     "UserStatusLastMonth", "UserStatusLongAgo", "UserStatusEmpty"}

InitStatus ==
    /\ pc = "call"
    /\ NoHandler /\ NoClient
    /\ returned = NotCalled
    /\ \/ \E e \in ElapsedValues, t \in LastSeenTimes, tz \in {"None", "UTC"} :
            /\ user = [NoUser EXCEPT
                         !.status = StatusObj("UserStatusOffline", DateTime(t, tz))]
            /\ now = t + e
       \/ \E s \in {StatusObj(n, NoAttr) : n \in CoarseTypeNames}
                   \cup {StatusObj("UserStatusOffline", NoneAttr),
                         NoStatusAttr, NoneStatus},
             t \in LastSeenTimes :
            /\ user = [NoUser EXCEPT !.status = s]
            /\ now = t

CallGetUserStatus ==
    /\ pc = "call"
    /\ returned' = _get_user_status(user, now)
    /\ pc' = "done"
    /\ UNCHANGED <<user, now, info_vars, client_vars>>

NextStatus == CallGetUserStatus

SpecStatus == InitStatus /\ [][NextStatus]_vars

(***************************************************************************)
(* Properties of _get_user_status, checked under SpecStatus.               *)
(***************************************************************************)
\* the status carries an exact last-seen timestamp
HasTimestamp == user.status.kind = "obj" /\ user.status.was_online.kind = "datetime"

\* now - timestamp, in seconds
Elapsed == now - user.status.was_online.t

Ago(n, unit) == "Last seen: " \o ToString(n) \o " " \o unit \o "(s) ago"

\* the rules with "elapsed > 365 days" and "elapsed > 30 days" read on the
\* elapsed time itself
LabelByElapsedTime(e) ==
    IF e > Days(365) THEN Ago((e \div 86400) \div 365, "year")
    ELSE IF e > Days(30) THEN Ago((e \div 86400) \div 30, "month")
    ELSE IF e \div 86400 > 0 THEN Ago(e \div 86400, "day")
    ELSE IF e % 86400 > 3600 THEN Ago((e % 86400) \div 3600, "hour")
    ELSE IF e % 86400 > 60 THEN Ago((e % 86400) \div 60, "minute")
    ELSE "Last seen: Recently"

\* the rules on whole elapsed days: years from 366 days, months from 31 days
LabelByWholeDays(e) ==
    IF e >= Days(366) THEN Ago((e \div 86400) \div 365, "year")
    ELSE IF e >= Days(31) THEN Ago((e \div 86400) \div 30, "month")
    ELSE IF e >= Days(1) THEN Ago(e \div 86400, "day")
    ELSE IF e > 3600 THEN Ago(e \div 3600, "hour")
    ELSE IF e > 60 THEN Ago(e \div 60, "minute")
    ELSE "Last seen: Recently"

\* C9 as stated: for an exact timestamp and a non-negative elapsed time the
\* label is that of the first matching rule, elapsed > 365 days giving
\* years and elapsed > 30 days giving months also when the excess is less
\* than one whole day.
C9_RulesOnElapsedTime ==
    (pc = "done" /\ HasTimestamp /\ Elapsed >= 0) =>
        returned = Return(LabelByElapsedTime(Elapsed))

\* C9 as amended: the first three rules compare the whole number of elapsed
\* days: more than 365 whole days (at least 366 days) gives years, more than
\* 30 whole days (at least 31 days) gives months, at least one whole day
\* gives days; below one day, more than 3600 seconds gives hours, more than
\* 60 seconds gives minutes, anything else "Recently". 400 days gives
\* "1 year(s) ago" and 40 minutes "40 minute(s) ago".
C9_RulesOnWholeDays ==
    (pc = "done" /\ HasTimestamp /\ Elapsed >= 0) =>
        /\ returned = Return(LabelByWholeDays(Elapsed))
        /\ Elapsed = Days(400) => returned.value = "Last seen: 1 year(s) ago"
        /\ Elapsed = 2400 => returned.value = "Last seen: 40 minute(s) ago"

\* an elapsed time of 365 days and one second is labelled in months
C9_Witness ==
    /\ pc = "done"
    /\ HasTimestamp
    /\ Elapsed = Days(365) + 1
    /\ returned.value = "Last seen: 12 month(s) ago"

\* the coarse categories: the class of each and its label
CoarseCategories ==
    << [category |-> "online",          type_name |-> "UserStatusOnline",
        label |-> "Online"],
       [category |-> "recentlyOnline",  type_name |-> "UserStatusRecently",
        label |-> "Recently"],
       [category |-> "withinLastWeek",  type_name |-> "UserStatusLastWeek",
        label |-> "Within a week"],
       [category |-> "withinLastMonth", type_name |-> "UserStatusLastMonth",
        label |-> "Within a month"],
       [category |-> "longAgo",         type_name |-> "UserStatusLongAgo",
        label |-> "Long time ago"] >>

\* C10: a status of a coarse category (no timestamp) gets the label of its
\* category; the five labels are pairwise distinct; and the class name of a
\* category matches exactly one of the checks, so that no order of the
\* checks gives it another category's label.
C10_CoarseCategories ==
    /\ \A i, j \in 1..Len(status_type_checks) :
          i # j => status_type_checks[i].label # status_type_checks[j].label
    /\ \A c \in 1..Len(CoarseCategories) :
          (/\ pc = "done"
           /\ user.status.kind = "obj"
           /\ user.status.was_online.kind = "missing"
           /\ user.status.type_name = CoarseCategories[c].type_name) =>
             /\ returned = Return(CoarseCategories[c].label)
             /\ \A i \in 1..Len(status_type_checks) :
                   contains(user.status.type_name, status_type_checks[i].needle)
                   => status_type_checks[i].label = CoarseCategories[c].label

\* a within-the-last-month status got the month label
C10_Witness ==
    /\ pc = "done"
    /\ user.status.kind = "obj"
    /\ user.status.was_online.kind = "missing"
    /\ user.status.type_name = "UserStatusLastMonth"
    /\ returned.value = "Within a month"

\* the descriptor is absent or unknown: no status attribute, a status of
\* None, or an object that carries neither an exact timestamp nor the class
\* of one of the five coarse categories
PresenceUnknown ==
    \/ user.status.kind = "missing"
    \/ user.status.kind = "none"
    \/ /\ user.status.kind = "obj"
       /\ user.status.was_online.kind # "datetime"
       /\ \A c \in 1..Len(CoarseCategories) :
             user.status.type_name # CoarseCategories[c].type_name

\* C11: when the presence descriptor is absent or unknown the call returns
\* exactly the label "Unknown" and does not raise.
C11_UnknownWhenAbsent ==
    (pc = "done" /\ PresenceUnknown) => returned = Return("Unknown")

\* the label counts hours or minutes
HourLabel(n) == returned.value = Ago(n, "hour")

MinuteLabel(n) == returned.value = Ago(n, "minute")

\* C16: for a last-seen timestamp later than the clock (negative elapsed
\* time) the label is "Last seen: Recently"; an hour(s) or minute(s) label
\* is returned only for 0 <= elapsed < 1 day, with N the whole number of
\* elapsed hours or minutes.
C16_NoAgoLabelForFutureTimestamp ==
    (pc = "done" /\ HasTimestamp) =>
        /\ Elapsed < 0 => returned.value = "Last seen: Recently"
        /\ \A n \in 0..1440 :
              /\ HourLabel(n) =>
                    (0 <= Elapsed /\ Elapsed < Days(1) /\ n = Elapsed \div 3600)
              /\ MinuteLabel(n) =>
                    (0 <= Elapsed /\ Elapsed < Days(1) /\ n = Elapsed \div 60)

(***************************************************************************)
(* Properties of the calling-code table, checked under SpecCountry.        *)
(***************************************************************************)
\* the key a is a proper prefix of the key b
ProperPrefix(a, b) == Len(a) < Len(b) /\ SubSeq(b, 1, Len(a)) = a

\* no key of the calling-code table is a proper prefix of another key
TablePrefixFree ==
    \A a \in DOMAIN country_codes, b \in DOMAIN country_codes : ~ProperPrefix(a, b)

\* the label of the first of the given prefix lengths of d that hits
RECURSIVE ProbeInOrder(_, _)
ProbeInOrder(d, lengths) ==
    IF lengths = <<>> THEN "Unknown"
    ELSE IF PrefixHit(d, Head(lengths)) THEN country_codes[SubSeq(d, 1, Head(lengths))]
    ELSE ProbeInOrder(d, Tail(lengths))

\* C15: the calling-code table is prefix-free, so at most one of the 1-, 2-
\* and 3-digit prefixes of a digit string is a key, and probing the lengths
\* in the order 1, 2, 3 gives what the lookup, probing 3, 2, 1, gives.
C15_PrefixFree ==
    /\ TablePrefixFree
    /\ (pc = "done" /\ PhonePresent(user.phone)) =>
          LET d == filter_digits(user.phone.v)
          IN  /\ Cardinality({n \in 1..3 : PrefixHit(d, n)}) <= 1
              /\ probe_country_codes(d, 1) = ProbeInOrder(d, <<1, 2, 3>>)
              /\ (~TagRecognised(user.lang_code) /\ Len(user.phone.v) >= 2) =>
                    returned.value =
                        IF ProbeInOrder(d, <<1, 2, 3>>) = "Unknown"
                        THEN "Unknown (Privacy Protected)"
                        ELSE ProbeInOrder(d, <<1, 2, 3>>) \o " (from phone)"

\* a number whose one-digit prefix is the only one that hits was looked up
C15_Witness ==
    /\ pc = "done"
    /\ user.phone = StrVal("+14155552671")
    /\ ~TagRecognised(user.lang_code)
    /\ PrefixHit(filter_digits(user.phone.v), 1)
    /\ ~PrefixHit(filter_digits(user.phone.v), 2)
    /\ ~PrefixHit(filter_digits(user.phone.v), 3)
    /\ returned.value = "USA/Canada (from phone)"

(***************************************************************************)
(* get_user_info from the fetched entity on, and the handlers' use of the  *)
(* record (myinfo, analyze, forwarded_message, button_callback).           *)
(***************************************************************************)
\* bound: seconds the wall clock may advance between two readings
MaxClockAdvance == 1

\* _get_user_status reads datetime.now() once it found status.was_online
status_reads_clock(u) ==
    u.status.kind = "obj" /\ u.status.was_online.kind # "missing"

\* datetime.isoformat() of a clock reading: date part and time of day
isoformat(t) == ToString(t \div 86400) \o "T" \o ToString(t % 86400)

\* the estimators under one shared try: after a failed date estimate the
\* country and the status are given up as well
build_user_info_one_try(u, status_clock, stamp_clock) ==
    LET registration_date == _estimate_registration_date(u.id).value
        gave_up == registration_date.accuracy = "failed"
    IN  Return([id |-> u.id,
                phone |-> IF truthy(u.phone) THEN u.phone.v
                          ELSE "Hidden/Private",
                lang_code |-> u.lang_code,
                registration_date |-> registration_date,
                country |-> IF gave_up THEN "Unknown"
                            ELSE _estimate_country(u).value,
                status |-> IF gave_up THEN "Unknown"
                           ELSE _get_user_status(u, status_clock).value,
                analysis_timestamp |-> isoformat(stamp_clock)])

\* the dict built from the entity: the fields computed by the estimators,
\* the fields they are computed from, and the timestamp; status_clock and
\* stamp_clock are the readings of datetime.now() in _get_user_status and in
\* the last entry. An exception of an entry leaves the construction.
build_user_info(u, status_clock, stamp_clock) ==
    LET registration_date == _estimate_registration_date(u.id)
        country == _estimate_country(u)
        status == _get_user_status(u, status_clock)
    IN  IF registration_date.raised THEN registration_date
        ELSE IF country.raised THEN country
        ELSE IF status.raised THEN status
        ELSE Return([id |-> u.id,
                     phone |-> IF truthy(u.phone) THEN u.phone.v
                               ELSE "Hidden/Private",
                     lang_code |-> u.lang_code,
                     registration_date |-> registration_date.value,
                     country |-> country.value,
                     status |-> status.value,
                     analysis_timestamp |-> isoformat(stamp_clock)])

\* get_user_info past the two fetches: the record, or the error result of
\* the outer except clause
get_user_info(u, status_clock, stamp_clock) ==
    LET body == build_user_info(u, status_clock, stamp_clock)
    IN  IF body.raised
        THEN Return([error |-> "Failed to retrieve user information: "
                               \o body.value])
        ELSE body

\* 'error' in user_info
has_error(user_info) == "error" \in DOMAIN user_info

\* f"{n:02d}" for an int 0 <= n
two_digits(n) == IF n < 10 THEN "0" \o ToString(n) ELSE ToString(n)

\* the format code 02d accepts an int only; month and day are str exactly
\* in the record of the estimator's except branch
int_fields(reg_date) == reg_date.accuracy # "failed"

\* format_user_info: date_str, then the message, given by the values it
\* interpolates; ValueError when the format code meets a str
format_user_info(user_info) ==
    LET reg_date == user_info.registration_date
    IN  IF ~int_fields(reg_date) THEN Raise("ValueError")
        ELSE LET date_str == ToString(reg_date.year) \o "-"
                             \o two_digits(reg_date.month) \o "-"
                             \o two_digits(reg_date.day) \o " (Estimated)"
             IN  Return([phone |-> user_info.phone,
                         language |-> IF truthy(user_info.lang_code)
                                      THEN user_info.lang_code.v ELSE "Unknown",
                         country |-> user_info.country,
                         registration |-> date_str,
                         last_seen |-> user_info.status,
                         analyzed_at |-> user_info.analysis_timestamp])

\* the handler past get_user_info: the error reply, or the formatted one; an
\* exception of format_user_info leaves the handler
handler_reply(user_info) ==
    IF has_error(user_info)
    THEN Return([error |-> "Error: " \o user_info.error])
    ELSE format_user_info(user_info)

(***************************************************************************)
(* Specification of one handler run from the fetched entity to the reply.  *)
(***************************************************************************)
\* identifiers of an old and of a very new account, and a value that is no
\* int
InfoUserIds == {IntVal(0, 500), IntVal(3000, 0), NoneVal}

InfoLangCodes == {NoneVal, StrVal("en"), StrVal("xx")}

InfoPhones == {NoneVal, StrVal("+14155552671"), StrVal("+999 12")}

\* elapsed seconds at the first clock reading: on and next to the borders
\* of the classification, and a last-seen time later than the clock
InfoElapsedValues == {0 - 5, 59, 60, 2400, 3600, Days(1) - 1, Days(400)}

InfoCoarseStatuses ==
    {NoStatusAttr, NoneStatus, StatusObj("UserStatusRecently", NoAttr),
     StatusObj("UserStatusOffline", NoneAttr)}

InitInfo ==
    /\ pc = "fetched"
    /\ NoClient
    /\ clock_reads = <<>>
    /\ returned = NotCalled
    /\ reply = NotCalled
    /\ \E i \in InfoUserIds, l \in InfoLangCodes, p \in InfoPhones :
          \/ \E e \in InfoElapsedValues :
                /\ user = [id |-> i, lang_code |-> l, phone |-> p,
                           status |-> StatusObj("UserStatusOffline",
                                                DateTime(Days(800), "UTC"))]
                /\ now = Days(800) + e
          \/ \E s \in InfoCoarseStatuses :
                /\ user = [id |-> i, lang_code |-> l, phone |-> p, status |-> s]
                /\ now = Days(800)

\* lines 98-122: the entries are evaluated in order; the clock is read in
\* _get_user_status (if at all) and again for analysis_timestamp, and may
\* have advanced in between
BuildUserInfo ==
    /\ pc = "fetched"
    /\ \E d \in 0..MaxClockAdvance :
          /\ now' = now + d
          /\ clock_reads' = IF status_reads_clock(user) THEN <<now, now'>>
                            ELSE <<now'>>
          /\ returned' = get_user_info(user, now, now')
    /\ pc' = "returned"
    /\ UNCHANGED <<user, reply, client_vars>>

\* the handler tests for 'error', formats and replies
HandlerReply ==
    /\ pc = "returned"
    /\ reply' = handler_reply(returned.value)
    /\ pc' = "replied"
    /\ UNCHANGED <<user, now, returned, clock_reads, client_vars>>

NextInfo == BuildUserInfo \/ HandlerReply

SpecInfo == InitInfo /\ [][NextInfo]_vars

(***************************************************************************)
(* Properties of get_user_info and of the handlers, checked under SpecInfo.*)
(***************************************************************************)
\* get_user_info has returned
InfoReturned == pc \in {"returned", "replied"}

\* the statuses of InitInfo, those with a timestamp by one of them
InfoStatuses ==
    InfoCoarseStatuses
    \cup {StatusObj("UserStatusOffline", DateTime(Days(800), "UTC"))}

\* the fields of a complete record
RecordFields ==
    {"id", "phone", "lang_code", "registration_date", "country", "status",
     "analysis_timestamp"}

\* what get_user_info returns for the entity o at the clock readings of
\* this call
RecordFor(o) ==
    get_user_info(o, clock_reads[1], clock_reads[Len(clock_reads)]).value

\* C12: once the entity is fetched, get_user_info returns a complete record
\* and no error result; a failed or unknown estimate shows as the marker of
\* its own field only: each field is the same for every entity that agrees
\* on the attributes this field is estimated from, whatever the other
\* estimators make of the other attributes
C12_FailureIsolation ==
    InfoReturned =>
        /\ ~returned.raised
        /\ ~has_error(returned.value)
        /\ DOMAIN returned.value = RecordFields
        /\ (user.id.kind # "int")
              <=> (returned.value.registration_date.accuracy = "failed")
        /\ (user.lang_code.kind = "none" /\ user.phone.kind = "none")
              => returned.value.country = "Unknown (Privacy Protected)"
        /\ user.status.kind = "missing" => returned.value.status = "Unknown"
        /\ \A i \in InfoUserIds :
              LET r == RecordFor([user EXCEPT !.id = i])
              IN  /\ ~has_error(r)
                  /\ r.country = returned.value.country
                  /\ r.status = returned.value.status
        /\ \A l \in InfoLangCodes, p \in InfoPhones :
              LET r == RecordFor([user EXCEPT !.lang_code = l, !.phone = p])
              IN  /\ ~has_error(r)
                  /\ r.registration_date = returned.value.registration_date
                  /\ r.status = returned.value.status
        /\ \A s \in InfoStatuses :
              LET r == RecordFor([user EXCEPT !.status = s])
              IN  /\ ~has_error(r)
                  /\ r.registration_date = returned.value.registration_date
                  /\ r.country = returned.value.country

\* an identifier that is no int: the date is marked failed, the country and
\* the status are estimated all the same
C12_Witness ==
    /\ pc = "returned"
    /\ user.id = NoneVal
    /\ user.lang_code = StrVal("en")
    /\ HasTimestamp /\ clock_reads[1] - user.status.was_online.t = 2400
    /\ ~has_error(returned.value)
    /\ returned.value.registration_date.accuracy = "failed"
    /\ returned.value.country = "English Speaking Region (from language)"
    /\ returned.value.status = "Last seen: 40 minute(s) ago"

\* C13: for every record get_user_info returns without an 'error' key, the
\* record of a failed registration estimate included, the handler produces
\* its message without raising, and the message does not show the sentinel
\* year, month and day as a date
C13_FailedEstimateHandled ==
    (pc = "replied" /\ ~has_error(returned.value)) =>
        /\ ~reply.raised
        /\ returned.value.registration_date.accuracy = "failed"
              => reply.value.registration # "Unknown-Unknown-Unknown (Estimated)"

\* C14: while get_user_info builds one record the wall clock is read exactly
\* once; analysis_timestamp is that reading, and the status label is the one
\* of the instant analysis_timestamp names
C14_ClockReadOnce ==
    (InfoReturned /\ ~has_error(returned.value)) =>
        /\ Len(clock_reads) = 1
        /\ returned.value.analysis_timestamp = isoformat(clock_reads[1])
        /\ returned.value.status
              = _get_user_status(user, clock_reads[Len(clock_reads)]).value

(***************************************************************************)
(* Lazy initialisation of the Telethon client: get_user_info coroutines,   *)
(* each suspended at its awaits, and the clear command.                    *)
(***************************************************************************)
\* bound: get_user_info coroutines that may be in progress together
MaxCalls == 3

\* bound: times the session is cleared
MaxClears == 1

\* a coroutine not yet called: pc, the client its pending call was invoked
\* on, session_initialized as read when it invoked get_entity, whether the
\* estimators ran, and what it returned
NewTask ==
    [pc |-> "idle", awaiting |-> 0, initialized_at_get_entity |-> "-",
     start_failed |-> FALSE, estimators_run |-> FALSE, result |-> NotCalled]

\* TelegramClient('bot_session', ...): the object, start not yet returned,
\* and the number of clears before it
NewClient == [state |-> "starting", after_clears |-> clears]

error_result(text) == Return([error |-> text])

\* line 85: get_entity invoked on the client self.client names at this point
invoke_get_entity(task, a) ==
    [task EXCEPT !.pc = "get_entity", !.awaiting = a.client,
                 !.initialized_at_get_entity =
                     IF a.session_initialized THEN "True" ELSE "False"]

\* the exceptions of the awaited calls the code tells apart
EntityErrors == {"ValueError", "FloodWaitError", "ConnectionError"}

\* the entity every call fetches
FetchedUser ==
    [id |-> IntVal(0, 500), lang_code |-> StrVal("en"), phone |-> NoneVal,
     status |-> StatusObj("UserStatusRecently", NoAttr)]

InitClient ==
    /\ pc = "serving"
    /\ NoHandler
    /\ returned = NotCalled
    /\ user = FetchedUser
    /\ now = Days(800)
    /\ analyzer = [client |-> 0, session_initialized |-> FALSE]
    /\ clients = <<>>
    /\ session_file \in BOOLEAN
    /\ clears = 0
    /\ tasks = [t \in 1..MaxCalls |-> NewTask]

\* lines 74-75 and 58-63 with session_initialized false: the client is
\* constructed (the session file may be created by it) and start is awaited
CallConstructsClient(t) ==
    /\ tasks[t].pc = "idle"
    /\ ~analyzer.session_initialized
    /\ clients' = Append(clients, NewClient)
    /\ analyzer' = [analyzer EXCEPT !.client = Len(clients) + 1]
    /\ session_file' \in {session_file, TRUE}
    /\ tasks' = [tasks EXCEPT ![t].pc = "start", ![t].awaiting = Len(clients) + 1]
    /\ UNCHANGED <<pc, user, now, returned, clock_reads, reply, clears>>

\* lines 62, 67-69 and 76: the constructor raises (the session file is in
\* use); initialize_client returns False
CallConstructorRaises(t) ==
    /\ tasks[t].pc = "idle"
    /\ ~analyzer.session_initialized
    /\ session_file
    /\ tasks' = [tasks EXCEPT
                   ![t].pc = "done", ![t].start_failed = TRUE,
                   ![t].result = error_result("Failed to initialize Telegram client")]
    /\ UNCHANGED <<pc, user, now, returned, clock_reads, reply,
                   analyzer, clients, session_file, clears>>

\* line 74 with session_initialized true, then line 85
CallUsesClient(t) ==
    /\ tasks[t].pc = "idle"
    /\ analyzer.session_initialized
    /\ tasks' = [tasks EXCEPT ![t] = invoke_get_entity(@, analyzer)]
    /\ UNCHANGED <<pc, user, now, returned, clock_reads, reply,
                   analyzer, clients, session_file, clears>>

\* lines 63-66: start returned; the flag is set, then line 85
StartReturns(t) ==
    /\ tasks[t].pc = "start"
    /\ clients' = [clients EXCEPT ![tasks[t].awaiting].state = "started"]
    /\ session_file' = TRUE
    /\ analyzer' = [analyzer EXCEPT !.session_initialized = TRUE]
    /\ tasks' = [tasks EXCEPT ![t] = invoke_get_entity(@, analyzer')]
    /\ UNCHANGED <<pc, user, now, returned, clock_reads, reply, clears>>

\* lines 67-69 and 76: start raised
StartRaises(t) ==
    /\ tasks[t].pc = "start"
    /\ clients' = [clients EXCEPT ![tasks[t].awaiting].state = "failed"]
    /\ tasks' = [tasks EXCEPT
                   ![t].pc = "done", ![t].start_failed = TRUE,
                   ![t].result = error_result("Failed to initialize Telegram client")]
    /\ UNCHANGED <<pc, user, now, returned, clock_reads, reply,
                   analyzer, session_file, clears>>

\* line 85 returned the entity (the client it was invoked on is started);
\* line 93 invokes the request on the client self.client names now
GetEntityReturns(t) ==
    /\ tasks[t].pc = "get_entity"
    /\ clients[tasks[t].awaiting].state = "started"
    /\ tasks' = [tasks EXCEPT ![t].pc = "full_user", ![t].awaiting = analyzer.client]
    /\ UNCHANGED <<pc, user, now, returned, clock_reads, reply,
                   analyzer, clients, session_file, clears>>

\* lines 86-89: get_entity raised
GetEntityRaises(t) ==
    /\ tasks[t].pc = "get_entity"
    /\ \E exc \in EntityErrors :
          tasks' = [tasks EXCEPT
                      ![t].pc = "done",
                      ![t].result =
                          IF exc = "ValueError"
                          THEN error_result("User not found: " \o exc)
                          ELSE error_result("Failed to get user entity: " \o exc)]
    /\ UNCHANGED <<pc, user, now, returned, clock_reads, reply,
                   analyzer, clients, session_file, clears>>

\* lines 92-122: the request returned or raised (full_user is None then);
\* the record is built, the estimators run
FullUserDone(t) ==
    /\ tasks[t].pc = "full_user"
    /\ \E d \in 0..MaxClockAdvance :
          /\ now' = now + d
          /\ tasks' = [tasks EXCEPT
                         ![t].pc = "done", ![t].estimators_run = TRUE,
                         ![t].result = get_user_info(user, now, now')]
    /\ UNCHANGED <<pc, user, returned, clock_reads, reply,
                   analyzer, clients, session_file, clears>>

\* clear by someone else than the admin
ClearDenied ==
    /\ reply' = Return("Access denied: Admin only command")
    /\ UNCHANGED <<pc, user, now, returned, clock_reads, client_vars>>

\* clear by the admin, the session file exists: it is removed and the flag
\* reset; self.client stays
ClearSession ==
    /\ session_file
    /\ clears < MaxClears
    /\ session_file' = FALSE
    /\ analyzer' = [analyzer EXCEPT !.session_initialized = FALSE]
    /\ clears' = clears + 1
    /\ reply' = Return("Bot session cleared successfully")
    /\ UNCHANGED <<pc, user, now, returned, clock_reads, clients, tasks>>

\* clear by the admin, no session file
ClearNoFile ==
    /\ ~session_file
    /\ reply' = Return("No session file found")
    /\ UNCHANGED <<pc, user, now, returned, clock_reads, client_vars>>

NextClient ==
    \/ \E t \in 1..MaxCalls :
          \/ CallConstructsClient(t)
          \/ CallConstructorRaises(t)
          \/ CallUsesClient(t)
          \/ StartReturns(t)
          \/ StartRaises(t)
          \/ GetEntityReturns(t)
          \/ GetEntityRaises(t)
          \/ FullUserDone(t)
    \/ ClearDenied
    \/ ClearSession
    \/ ClearNoFile

SpecClient == InitClient /\ [][NextClient]_vars

(***************************************************************************)
(* Properties of the lazy initialisation, checked under SpecClient.        *)
(***************************************************************************)
\* the clients constructed after e clears whose start succeeded
StartedAfter(e) ==
    {c \in 1..Len(clients) :
        clients[c].after_clears = e /\ clients[c].state = "started"}

\* between two clears at most one client is constructed and started
StartedOncePerClear == \A e \in 0..clears : Cardinality(StartedAfter(e)) <= 1

\* session_initialized is true only after a start that succeeded
InitializedOnlyAfterStart ==
    analyzer.session_initialized
        => \E c \in 1..Len(clients) : clients[c].state = "started"

\* get_entity is invoked only while session_initialized is true
GetEntityOnlyWhenInitialized ==
    \A t \in 1..MaxCalls : tasks[t].initialized_at_get_entity # "False"

\* a failed initialisation gives the error result, no estimator has run
FailedInitYieldsError ==
    \A t \in 1..MaxCalls :
        tasks[t].start_failed =>
            /\ tasks[t].pc = "done"
            /\ tasks[t].result
                  = error_result("Failed to initialize Telegram client")
            /\ ~tasks[t].estimators_run

====
